---- MODULE Spec2Model ----
(***************************************************************************)
(* Deadline Reminder System: the task entity (models/task.py), the task    *)
(* store (models/task_manager.py) and the reminder aggregator              *)
(* (models/reminder_system.py), with the wall clock as a state variable.   *)
(*                                                                         *)
(* A datetime is the integer  day * DayLen + time_of_day ; a date is the   *)
(* day number, a time of day is a slot 0 .. DayLen-1.  Python's None is    *)
(* NoneV.  uuid4() is a counter that never repeats.                        *)
(***************************************************************************)
EXTENDS Integers, Sequences, FiniteSets, TLC

VARIABLES tasks, now, nextId, disk, ret

vars == <<tasks, now, nextId, disk, ret>>

\* ---------------------------------------------------------------- bounds
\* time-of-day slots per day
DayLen == 2
\* the clock starts on day 1 at slot 0 and runs to the end of day MaxDay
MaxDay == 2
\* at most MaxTasks tasks are ever created
MaxTasks == 2
\* the longest chain of occurrences of one repeating task
MaxChain == 3
\* the deadlines the urgency inputs range over: days 0 .. MaxDate
MaxDate == 8

\* ------------------------------------------------------------- constants
NoneV == -1
upcoming_threshold == 3

RegularTask == "RegularTask"
RecurringTask == "RecurringTask"

\* --------------------------------------------------------------- the clock
\* date.today()
Today == now \div DayLen
\* datetime.now().time()
TimeOfDay == now % DayLen
\* timedelta(days = n) on the datetime scale
Days(n) == n * DayLen

\* ------------------------------------------------------------ task entity
\* str.lower() on the category tags the callers pass
Lower(c) ==
  CASE c = "Kerja" -> "kerja"
    [] c = "Kuliah" -> "kuliah"
    [] OTHER -> c

\* BaseTask.__init__ / RecurringTask.__init__ ; the recurrence fields of a
\* RegularTask do not exist: they hold NoneV / "-" and are never read.
NewTask(id, kind, title, description, deadline_date, deadline_time, priority, category, recurrence_type, recurrence_count) ==
  [ task_id |-> id,
    kind |-> kind,
    title |-> title,
    description |-> description,
    deadline_date |-> IF deadline_date = NoneV THEN Today ELSE deadline_date,
    deadline_time |-> deadline_time,
    priority |-> priority,
    category |-> Lower(category),
    completed |-> FALSE,
    created_at |-> now,
    completed_at |-> NoneV,
    recurrence_type |-> IF kind = RecurringTask THEN recurrence_type ELSE "-",
    recurrence_count |-> IF kind = RecurringTask THEN recurrence_count ELSE NoneV,
    original_deadline |-> IF kind = RecurringTask THEN deadline_date ELSE NoneV ]

\* BaseTask.get_days_until_deadline
DaysUntilDeadline(t) == t.deadline_date - Today

\* is_overdue without the check of the completed flag
IsOverdueIgnoresCompleted(t) ==
  IF t.deadline_date < Today THEN TRUE
  ELSE IF t.deadline_date = Today /\ t.deadline_time # NoneV
       THEN TimeOfDay > t.deadline_time
  ELSE FALSE

\* is_overdue that counts the due day itself as late
IsOverdueOnDueDay(t) ==
  IF t.completed THEN FALSE
  ELSE t.deadline_date <= Today

\* is_overdue that compares the time of day on every day up to today
IsOverdueByTimeOfDay(t) ==
  IF t.completed THEN FALSE
  ELSE IF t.deadline_date <= Today /\ t.deadline_time # NoneV
       THEN TimeOfDay > t.deadline_time
  ELSE t.deadline_date < Today

\* BaseTask.is_overdue
IsOverdue(t) ==
  IF t.completed THEN FALSE
  ELSE IF t.deadline_date < Today THEN TRUE
  ELSE IF t.deadline_date = Today /\ t.deadline_time # NoneV
       THEN TimeOfDay > t.deadline_time
  ELSE FALSE

\* get_urgency_level with the Medium-priority "medium" row cut at 4 days
RegularUrgencyShortRow(t) ==
  IF t.completed THEN "completed"
  ELSE IF t.deadline_date < Today THEN "overdue"
  ELSE LET days_left == t.deadline_date - Today IN
    IF t.priority = 2 /\ days_left = 5 THEN "low"
    ELSE IF t.priority = 1 THEN
      (IF days_left <= 1 THEN "critical" ELSE IF days_left <= 3 THEN "high" ELSE "medium")
    ELSE IF t.priority = 2 THEN
      (IF days_left <= 0 THEN "critical" ELSE IF days_left <= 2 THEN "high"
       ELSE IF days_left <= 5 THEN "medium" ELSE "low")
    ELSE
      (IF days_left <= 0 THEN "high" ELSE IF days_left <= 3 THEN "medium" ELSE "low")

\* RegularTask.get_urgency_level
RegularUrgency(t) ==
  IF t.completed THEN "completed"
  ELSE IF IsOverdue(t) THEN "overdue"
  ELSE LET days_left == DaysUntilDeadline(t) IN
    IF t.priority = 1 THEN
      (IF days_left <= 1 THEN "critical"
       ELSE IF days_left <= 3 THEN "high"
       ELSE "medium")
    ELSE IF t.priority = 2 THEN
      (IF days_left <= 0 THEN "critical"
       ELSE IF days_left <= 2 THEN "high"
       ELSE IF days_left <= 5 THEN "medium"
       ELSE "low")
    ELSE
      (IF days_left <= 0 THEN "high"
       ELSE IF days_left <= 3 THEN "medium"
       ELSE "low")

\* BaseTask.get_urgency_level: the abstract method's body is `pass`, so a
\* call through super() returns None.
BaseUrgency(t) == "None"

\* RecurringTask.get_urgency_level
RecurringUrgency(t) ==
  LET base_urgency == BaseUrgency(t) IN
  IF base_urgency = "critical" THEN "high"
  ELSE IF base_urgency = "high" THEN "medium"
  ELSE base_urgency

\* task.get_urgency_level(), dispatched on the class
GetUrgencyLevel(t) ==
  IF t.kind = RecurringTask THEN RecurringUrgency(t) ELSE RegularUrgency(t)

\* get_next_deadline that takes timedelta(weeks = n) for n days
GetNextDeadlineWeeksAsDays(t) ==
  IF t.recurrence_type = "daily" THEN t.deadline_date + t.recurrence_count
  ELSE IF t.recurrence_type = "weekly" THEN t.deadline_date + t.recurrence_count
  ELSE IF t.recurrence_type = "monthly" THEN t.deadline_date + 30 * t.recurrence_count
  ELSE t.deadline_date

\* RecurringTask.get_next_deadline
GetNextDeadline(t) ==
  IF t.recurrence_type = "daily" THEN t.deadline_date + t.recurrence_count
  ELSE IF t.recurrence_type = "weekly" THEN t.deadline_date + 7 * t.recurrence_count
  ELSE IF t.recurrence_type = "monthly" THEN t.deadline_date + 30 * t.recurrence_count
  ELSE t.deadline_date

\* mark_completed that also moves the task to its next cycle, as
\* reset_for_next_cycle moves the deadline
TaskMarkCompletedAndAdvance(t) ==
  [t EXCEPT !.completed = TRUE, !.completed_at = now,
            !.deadline_date = GetNextDeadline(t)]

\* BaseTask.mark_completed
TaskMarkCompleted(t) == [t EXCEPT !.completed = TRUE, !.completed_at = now]

\* ------------------------------------------------------------ persistence
\* date/time/datetime .isoformat() and .fromisoformat(): the text is tagged
\* with the type it was written from
IsoFormat(tag, v) == <<tag, v>>
FromIsoFormat(s) == s[2]

\* RecurringTask.to_dict calls original_deadline.isoformat(), which raises
\* on None
ToDictRaises(t) == t.kind = RecurringTask /\ t.original_deadline = NoneV

\* BaseTask.to_dict
BaseToDict(t) ==
  [ task_id |-> t.task_id,
    title |-> t.title,
    description |-> t.description,
    deadline_date |-> IsoFormat("date", t.deadline_date),
    deadline_time |-> IF t.deadline_time # NoneV
                      THEN IsoFormat("time", t.deadline_time)
                      ELSE IsoFormat("null", NoneV),
    priority |-> t.priority,
    category |-> t.category,
    completed |-> t.completed,
    created_at |-> IsoFormat("datetime", t.created_at),
    completed_at |-> IF t.completed_at # NoneV
                     THEN IsoFormat("datetime", t.completed_at)
                     ELSE IsoFormat("null", NoneV),
    task_type |-> t.kind ]

\* RecurringTask.to_dict
RecurringToDict(t) ==
  [ k \in DOMAIN BaseToDict(t) \cup
          {"recurrence_type", "recurrence_count", "original_deadline"} |->
      IF k = "recurrence_type" THEN t.recurrence_type
      ELSE IF k = "recurrence_count" THEN t.recurrence_count
      ELSE IF k = "original_deadline" THEN IsoFormat("date", t.original_deadline)
      ELSE BaseToDict(t)[k] ]

\* task.to_dict(), dispatched on the class
ToDict(t) == IF t.kind = RecurringTask THEN RecurringToDict(t) ELSE BaseToDict(t)

\* TaskManager.save_data: the file is opened only after every to_dict()
\* returned; an exception is caught and leaves the file as it was.
SaveData(ts) ==
  IF \E i \in 1..Len(ts) : ToDictRaises(ts[i]) THEN disk
  ELSE [exists |-> TRUE, tasks |-> [i \in 1..Len(ts) |-> ToDict(ts[i])]]

\* dict.get(key, default)
Get(data, key, default) == IF key \in DOMAIN data THEN data[key] ELSE default

\* the keys from_dict reads as data[key]: a record without one of them is a
\* KeyError
RequiredKeys ==
  {"title", "description", "deadline_date", "deadline_time", "priority",
   "category", "task_id", "completed", "created_at", "completed_at"}

FromDictRaises(data) == ~(RequiredKeys \subseteq DOMAIN data)

\* the assignments after the constructor call in from_dict; the constructor
\* draws an id of its own, which task_id = data['task_id'] replaces
FromDictFields(task, data) ==
  [task EXCEPT !.task_id = data.task_id,
               !.completed = data.completed,
               !.created_at = FromIsoFormat(data.created_at),
               !.completed_at = IF data.completed_at[1] # "null"
                                THEN FromIsoFormat(data.completed_at)
                                ELSE NoneV]

\* data['deadline_time'] parsed, or None
DeadlineTimeOf(data) ==
  IF data.deadline_time[1] # "null" THEN FromIsoFormat(data.deadline_time)
  ELSE NoneV

\* BaseTask.from_dict, called as RegularTask.from_dict
BaseFromDict(data) ==
  FromDictFields(NewTask(data.task_id, RegularTask, data.title,
                         data.description, FromIsoFormat(data.deadline_date),
                         DeadlineTimeOf(data), data.priority, data.category,
                         "-", NoneV),
                 data)

\* RecurringTask.from_dict
RecurringFromDict(data) ==
  LET task == NewTask(data.task_id, RecurringTask, data.title,
                      data.description, FromIsoFormat(data.deadline_date),
                      DeadlineTimeOf(data), data.priority, data.category,
                      Get(data, "recurrence_type", "daily"),
                      Get(data, "recurrence_count", 1))
  IN [FromDictFields(task, data) EXCEPT
        !.original_deadline =
           FromIsoFormat(Get(data, "original_deadline", data.deadline_date))]

\* the dispatch on task_type in load_data
FromDict(data) ==
  IF Get(data, "task_type", "RegularTask") = "RecurringTask"
  THEN RecurringFromDict(data)
  ELSE BaseFromDict(data)

\* TaskManager.load_data on a manager that holds ts, with the file d: no
\* file, nothing happens; an exception in any record empties the list
LoadInto(ts, d) ==
  IF ~d.exists THEN ts
  ELSE IF \E i \in 1..Len(d.tasks) : FromDictRaises(d.tasks[i]) THEN <<>>
  ELSE [i \in 1..Len(d.tasks) |-> FromDict(d.tasks[i])]

\* ------------------------------------------------------------- task store
\* TaskManager.get_task_by_id: the position of the first task with that id,
\* 0 for None
GetTaskById(id) ==
  IF \E i \in 1..Len(tasks) : tasks[i].task_id = id
  THEN CHOOSE i \in 1..Len(tasks) :
         /\ tasks[i].task_id = id
         /\ \A j \in 1..(i-1) : tasks[j].task_id # id
  ELSE 0

\* comparison of the key tuples (a, b)
KeyLess(k1, k2) == k1[1] < k2[1] \/ (k1[1] = k2[1] /\ k1[2] < k2[2])

\* sorted(s, key = ...) on pairs <<key, task>>; a list comprehension
\* [x for x in s if P(x)] is SelectSeq(s, P).  Python's sort is stable, so an
\* element goes after every element whose key is not greater
RECURSIVE InsertSorted(_, _)
InsertSorted(x, s) ==
  IF s = <<>> THEN <<x>>
  ELSE IF KeyLess(x[1], Head(s)[1]) THEN <<x>> \o s
  ELSE <<Head(s)>> \o InsertSorted(x, Tail(s))

RECURSIVE SortPairs(_)
SortPairs(s) ==
  IF s = <<>> THEN <<>>
  ELSE InsertSorted(s[Len(s)], SortPairs(SubSeq(s, 1, Len(s) - 1)))

\* the tasks of the sorted pairs
Values(sp) == [i \in 1..Len(sp) |-> sp[i][2]]

\* the key (deadline_date, deadline_time or time.min)
DeadlineKey(t) ==
  <<t.deadline_date, IF t.deadline_time # NoneV THEN t.deadline_time ELSE 0>>

\* TaskManager.get_pending_tasks
NotCompleted(t) == ~t.completed
GetPendingTasks == SelectSeq(tasks, NotCompleted)

\* TaskManager.get_completed_tasks
IsCompleted(t) == t.completed
GetCompletedTasks == SelectSeq(tasks, IsCompleted)

\* TaskManager.get_overdue_tasks
GetOverdueTasks == SelectSeq(tasks, IsOverdue)

\* get_upcoming_tasks without the test of the completed flag
GetUpcomingTasksAnyState(days) ==
  LET future_date == Today + days
      InWindow(t) == Today <= t.deadline_date /\ t.deadline_date <= future_date
      upcoming == SelectSeq(tasks, InWindow)
  IN Values(SortPairs([i \in 1..Len(upcoming) |-> <<DeadlineKey(upcoming[i]), upcoming[i]>>]))

\* TaskManager.get_upcoming_tasks
GetUpcomingTasks(days) ==
  LET future_date == Today + days
      InWindow(t) == Today <= t.deadline_date /\ t.deadline_date <= future_date
                     /\ ~t.completed
      upcoming == SelectSeq(tasks, InWindow)
  IN Values(SortPairs([i \in 1..Len(upcoming) |-> <<DeadlineKey(upcoming[i]), upcoming[i]>>]))

\* the by_category loop of get_statistics: a key for every category a
\* task has
CategoryStats ==
  [c \in {tasks[i].category : i \in 1..Len(tasks)} |->
     Cardinality({i \in 1..Len(tasks) : tasks[i].category = c})]

\* priority counts with keys only for the priorities some task has
PriorityStatsInUse ==
  [p \in {tasks[i].priority : i \in 1..Len(tasks)} |->
     Cardinality({i \in 1..Len(tasks) : tasks[i].priority = p})]

\* the by_priority loop of get_statistics, from {1: 0, 2: 0, 3: 0}
PriorityStats ==
  [p \in {1, 2, 3} |-> Cardinality({i \in 1..Len(tasks) : tasks[i].priority = p})]

\* TaskManager.get_statistics.  completion_rate is the fraction
\* <<numerator, denominator>> of completed / total * 100 (the float's
\* rounding is not modelled), and <<0, 1>> for the literal 0
GetStatistics ==
  LET total_tasks == Len(tasks)
      completed_tasks == Len(GetCompletedTasks)
      pending_tasks == Len(GetPendingTasks)
      overdue_tasks == Len(GetOverdueTasks)
      completion_rate == IF total_tasks > 0
                         THEN <<completed_tasks * 100, total_tasks>>
                         ELSE <<0, 1>>
  IN [ total |-> total_tasks,
       completed |-> completed_tasks,
       pending |-> pending_tasks,
       overdue |-> overdue_tasks,
       completion_rate |-> completion_rate,
       by_category |-> CategoryStats,
       by_priority |-> PriorityStats ]

\* ------------------------------------------------------ reminder aggregator
\* no deduplication: every task of the concatenation is kept
KeepDuplicates(s, seen_ids) == s

\* the loop of get_urgent_reminders that keeps the first task of every id
RECURSIVE RemoveDuplicates(_, _)
RemoveDuplicates(s, seen_ids) ==
  IF s = <<>> THEN <<>>
  ELSE IF Head(s).task_id \notin seen_ids
       THEN <<Head(s)>> \o RemoveDuplicates(Tail(s), seen_ids \cup {Head(s).task_id})
       ELSE RemoveDuplicates(Tail(s), seen_ids)

\* a sort key without the priority
UrgentKeyDateOnly(t) == <<t.deadline_date, 0>>

\* the key (deadline_date, priority)
UrgentKey(t) == <<t.deadline_date, t.priority>>

\* ReminderSystem.get_urgent_reminders
GetUrgentReminders ==
  LET DueToday(t) == t.deadline_date = Today
      today_tasks == SelectSeq(GetPendingTasks, DueToday)
      overdue_tasks == GetOverdueTasks
      urgent_tasks == today_tasks \o overdue_tasks
      unique_urgent == RemoveDuplicates(urgent_tasks, {})
  IN Values(SortPairs([i \in 1..Len(unique_urgent) |->
                         <<UrgentKey(unique_urgent[i]), unique_urgent[i]>>]))

\* get_upcoming_reminders without the exclusion of today's tasks
UpcomingWithToday == GetUpcomingTasks(upcoming_threshold)

\* ReminderSystem.get_upcoming_reminders
GetUpcomingReminders ==
  LET NotToday(t) == t.deadline_date # Today
  IN SelectSeq(GetUpcomingTasks(upcoming_threshold), NotToday)

\* ReminderSystem.get_overdue_reminders
GetOverdueReminders == GetOverdueTasks

\* ---------------------------------------------------- store: the operations
\* ret is what the last call returned: True is 1 and False is 0, as in
\* Python, and cleanup_completed_tasks returns a count
True == 1
False == 0

\* TaskManager.add_task(**kw): never raises on well-typed arguments
AddTask(kw) ==
  /\ Len(tasks) < MaxTasks
  /\ nextId <= MaxTasks
  /\ LET task == NewTask(nextId,
                         IF kw.task_type = "recurring" THEN RecurringTask
                                                       ELSE RegularTask,
                         kw.title, kw.description, kw.deadline_date,
                         kw.deadline_time, kw.priority, kw.category,
                         kw.recurrence_type, kw.recurrence_count)
     IN /\ tasks' = Append(tasks, task)
        /\ disk' = SaveData(tasks')
  /\ nextId' = nextId + 1
  /\ ret' = True
  /\ UNCHANGED now

\* add_task on an empty store
AddFirstTask(kw) == tasks = <<>> /\ AddTask(kw)

\* a next occurrence that carries the id of the task it follows
NextOccurrenceSameId(recurring_task, id) ==
  NewTask(recurring_task.task_id, RecurringTask,
          recurring_task.title,
          recurring_task.description,
          GetNextDeadline(recurring_task),
          recurring_task.deadline_time,
          recurring_task.priority,
          recurring_task.category,
          recurring_task.recurrence_type,
          recurring_task.recurrence_count)

\* a next occurrence that counts its deadline from the day of completion
NextOccurrenceFromToday(recurring_task, id) ==
  NewTask(id, RecurringTask,
          recurring_task.title,
          recurring_task.description,
          Today + (GetNextDeadline(recurring_task) - recurring_task.deadline_date),
          recurring_task.deadline_time,
          recurring_task.priority,
          recurring_task.category,
          recurring_task.recurrence_type,
          recurring_task.recurrence_count)

\* TaskManager._handle_recurring_task_completion: the task it appends
NextOccurrence(recurring_task, id) ==
  NewTask(id, RecurringTask,
          recurring_task.title,
          recurring_task.description,
          GetNextDeadline(recurring_task),
          recurring_task.deadline_time,
          recurring_task.priority,
          recurring_task.category,
          recurring_task.recurrence_type,
          recurring_task.recurrence_count)

\* TaskManager.mark_completed(task_id), while fewer than cap tasks have
\* been created
MarkCompletedWithin(task_id, cap) ==
  LET i == GetTaskById(task_id) IN
  IF i = 0
  THEN /\ ret' = False
       /\ UNCHANGED <<tasks, now, nextId, disk>>
  ELSE LET done == [tasks EXCEPT ![i] = TaskMarkCompleted(tasks[i])] IN
       /\ IF tasks[i].kind = RecurringTask
          THEN /\ Len(tasks) < cap
               /\ nextId <= cap
               /\ tasks' = Append(done, NextOccurrence(done[i], nextId))
               /\ nextId' = nextId + 1
          ELSE /\ tasks' = done
               /\ UNCHANGED nextId
       /\ disk' = SaveData(tasks')
       /\ ret' = True
       /\ UNCHANGED now

\* TaskManager.mark_completed(task_id)
MarkCompleted(task_id) == MarkCompletedWithin(task_id, MaxTasks)

\* list.remove(x): without the element at position i
RemoveAt(s, i) == SubSeq(s, 1, i - 1) \o SubSeq(s, i + 1, Len(s))

\* TaskManager.delete_task(task_id)
DeleteTask(task_id) ==
  LET i == GetTaskById(task_id) IN
  IF i = 0
  THEN /\ ret' = False
       /\ UNCHANGED <<tasks, now, nextId, disk>>
  ELSE /\ tasks' = RemoveAt(tasks, i)
       /\ disk' = SaveData(tasks')
       /\ ret' = True
       /\ UNCHANGED <<now, nextId>>

\* hasattr(task, key) for the data attributes a caller can name: the
\* keyword task_id is taken by update_task's own first parameter, so a call
\* update_task(id, task_id = ...) is a TypeError before the body runs
HasAttr(t, key) ==
  \/ key \in {"title", "description", "deadline_date", "deadline_time",
              "priority", "category", "completed", "created_at", "completed_at"}
  \/ /\ t.kind = RecurringTask
     /\ key \in {"recurrence_type", "recurrence_count", "original_deadline"}

\* update_task that reports success for an id it did not find
UpdateTaskAlwaysTrue(task_id, key, value) ==
  LET i == GetTaskById(task_id) IN
  /\ tasks' = IF i # 0 /\ HasAttr(tasks[i], key)
              THEN [tasks EXCEPT ![i] = [tasks[i] EXCEPT ![key] = value]]
              ELSE tasks
  /\ disk' = SaveData(tasks')
  /\ ret' = True
  /\ UNCHANGED <<now, nextId>>

\* TaskManager.update_task(task_id, key = value)
UpdateTask(task_id, key, value) ==
  LET i == GetTaskById(task_id) IN
  IF i = 0
  THEN /\ ret' = False
       /\ UNCHANGED <<tasks, now, nextId, disk>>
  ELSE /\ tasks' = IF HasAttr(tasks[i], key)
                   THEN [tasks EXCEPT ![i] = [tasks[i] EXCEPT ![key] = value]]
                   ELSE tasks
       /\ disk' = SaveData(tasks')
       /\ ret' = True
       /\ UNCHANGED <<now, nextId>>

\* a cleanup that goes by the deadline instead of the completion time
CleanupRemovesByDeadline(t, days_old) ==
  LET cutoff_date == now - Days(days_old)
  IN t.deadline_date * DayLen < cutoff_date

\* the tasks cleanup_completed_tasks drops
CleanupRemoves(t, days_old) ==
  LET cutoff_date == now - Days(days_old)
  IN t.completed /\ t.completed_at # NoneV /\ t.completed_at < cutoff_date

\* TaskManager.cleanup_completed_tasks(days_old)
CleanupCompletedTasks(days_old) ==
  LET Keep(t) == ~CleanupRemoves(t, days_old)
      kept == SelectSeq(tasks, Keep)
      removed_count == Len(tasks) - Len(kept)
  IN /\ tasks' = kept
     /\ disk' = IF removed_count > 0 THEN SaveData(tasks') ELSE disk
     /\ ret' = removed_count
     /\ UNCHANGED <<now, nextId>>

\* TaskManager.load_data()
LoadData ==
  /\ tasks' = LoadInto(tasks, disk)
  /\ ret' = NoneV
  /\ UNCHANGED <<now, nextId, disk>>

\* RecurringTask.reset_for_next_cycle() on a task of the store; nothing
\* saves after it.  Deadlines stay within MaxDate.
ResetForNextCycle(task_id) ==
  LET i == GetTaskById(task_id) IN
  /\ i # 0
  /\ tasks[i].kind = RecurringTask
  /\ GetNextDeadline(tasks[i]) <= MaxDate
  /\ tasks' = [tasks EXCEPT ![i] =
                 [tasks[i] EXCEPT !.deadline_date = GetNextDeadline(tasks[i]),
                                  !.completed = FALSE,
                                  !.completed_at = NoneV]]
  /\ ret' = NoneV
  /\ UNCHANGED <<now, nextId, disk>>

\* the file as something other than save_data left it: record i with a
\* task_type load_data does not know, or without its title
DamageRecord(i, how) ==
  /\ disk.exists
  /\ i \in 1..Len(disk.tasks)
  /\ "title" \in DOMAIN disk.tasks[i]
  /\ disk.tasks[i].task_type # "OtherTask"
  /\ LET data == disk.tasks[i]
         damaged == IF how = "unknown_type"
                    THEN [data EXCEPT !.task_type = "OtherTask"]
                    ELSE [k \in DOMAIN data \ {"title"} |-> data[k]]
     IN disk' = [disk EXCEPT !.tasks[i] = damaged]
  /\ UNCHANGED <<tasks, now, nextId, ret>>

\* the wall clock advances by one slot
Tick ==
  /\ now + 1 < (MaxDay + 1) * DayLen
  /\ now' = now + 1
  /\ UNCHANGED <<tasks, nextId, disk, ret>>

\* the clock advances within the first day
TickToday == now + 1 < 2 * DayLen /\ Tick

\* the clock advances within the first two days
TickTwoDays == now + 1 < 3 * DayLen /\ Tick

\* ------------------------------------------------------------------ inputs
\* the identifiers a caller can name: issued ones and unknown ones
Ids == 1..MaxTasks

\* TaskManager.__init__ on the first day at slot 0; no file is written yet
Init ==
  /\ tasks = <<>>
  /\ now = DayLen
  /\ nextId = 1
  /\ disk = [exists |-> FALSE, tasks |-> <<>>]
  /\ ret = NoneV

\* the keyword arguments of one add_task call
Kwargs(title, description, deadline_date, deadline_time, priority, category, task_type, recurrence_type, recurrence_count) ==
  [ title |-> title, description |-> description, deadline_date |-> deadline_date,
    deadline_time |-> deadline_time, priority |-> priority, category |-> category,
    task_type |-> task_type, recurrence_type |-> recurrence_type,
    recurrence_count |-> recurrence_count ]

\* ---------------------------------------------------------------- the store
\* add_task arguments: a one-off task and two repeating tasks; a
\* deadline_date of None is the default of the parameter
StoreAddInputs ==
  { Kwargs("a", "", 2, NoneV, 2, "kerja", "regular", "daily", 1),
    Kwargs("b", "d", 1, 1, 1, "Kuliah", "recurring", "daily", 2),
    Kwargs("c", "", NoneV, NoneV, 3, "kerja", "recurring", "weekly", 1) }

\* update_task arguments: the completed flag set by hand
StoreUpdateInputs == { <<"completed", TRUE>> }

Next ==
  \/ \E kw \in StoreAddInputs : AddTask(kw)
  \/ \E id \in Ids : MarkCompleted(id)
  \/ \E id \in Ids : DeleteTask(id)
  \/ \E id \in Ids : \E u \in StoreUpdateInputs : UpdateTask(id, u[1], u[2])
  \/ CleanupCompletedTasks(0)
  \/ TickToday

Spec == Init /\ [][Next]_vars

\* ------------------------------------------------------- one task's urgency
\* one task at a time, of either class, of every priority, with and without
\* a time of day, due from before the first day to a week after the last
UrgencyAddInputs ==
  { Kwargs("a", "", d, tm, p, "kerja", ty, "daily", 1) :
      d \in 0..MaxDate, tm \in {NoneV} \cup (0..(DayLen - 1)), p \in 1..3,
      ty \in {"regular", "recurring"} }

NextUrgency ==
  \/ \E kw \in UrgencyAddInputs : AddFirstTask(kw)
  \/ \E id \in Ids : MarkCompleted(id)
  \/ Tick

SpecUrgency == Init /\ [][NextUrgency]_vars

\* the tasks of the store, as a set of positions
Pos == 1..Len(tasks)

\* the urgency table of the specification: for a priority, the rows
\* <<days_left limit, level>> in order and the level of the last row
UrgencyRows(p) ==
  IF p = 1 THEN << <<1, "critical">>, <<3, "high">> >>
  ELSE IF p = 2 THEN << <<0, "critical">>, <<2, "high">>, <<5, "medium">> >>
  ELSE << <<0, "high">>, <<3, "medium">> >>
UrgencyElse(p) == IF p = 1 THEN "medium" ELSE "low"

TableLevel(p, days_left) ==
  LET rows == UrgencyRows(p)
      hits == {k \in 1..Len(rows) : days_left <= rows[k][1]}
  IN IF hits = {} THEN UrgencyElse(p)
     ELSE rows[CHOOSE k \in hits : \A j \in hits : k <= j][2]

\* what the Regular-task rules give for the fields of t
RegularRules(t) ==
  IF t.completed THEN "completed"
  ELSE IF IsOverdue(t) THEN "overdue"
  ELSE TableLevel(t.priority, t.deadline_date - Today)

Demote(level) ==
  IF level = "critical" THEN "high"
  ELSE IF level = "high" THEN "medium"
  ELSE level

\* C1: a Recurring task's get_urgency_level() is the Regular-task result
\* for the same fields, demoted one step (critical -> high, high -> medium,
\* every other level unchanged).
C1_RecurringIsDemotedRegular ==
  \A i \in Pos :
    tasks[i].kind = RecurringTask =>
      GetUrgencyLevel(tasks[i]) = Demote(RegularRules(tasks[i]))

\* C2: a Regular task's get_urgency_level() is "completed" when completed,
\* else "overdue" when is_overdue(), else the table value for
\* (priority, days_left).
C2_RegularMatchesTable ==
  \A i \in Pos :
    tasks[i].kind = RegularTask =>
      GetUrgencyLevel(tasks[i]) = RegularRules(tasks[i])

\* a pending Medium-priority Regular task six days ahead (the "low" row) and
\* evaluated by the table, not short-circuited
C2_Witness ==
  \E i \in Pos :
    /\ tasks[i].kind = RegularTask /\ ~tasks[i].completed
    /\ tasks[i].priority = 2 /\ tasks[i].deadline_date - Today = 6
    /\ GetUrgencyLevel(tasks[i]) = "low"

\* C5: is_overdue() is false for every completed task, whatever its
\* deadline, and get_overdue_tasks() holds no completed task.
C5_CompletedNeverOverdue ==
  /\ \A i \in Pos : tasks[i].completed => ~IsOverdue(tasks[i])
  /\ \A k \in 1..Len(GetOverdueTasks) : ~GetOverdueTasks[k].completed

\* a completed task whose deadline date is in the past
C5_Witness ==
  \E i \in Pos : tasks[i].completed /\ tasks[i].deadline_date < Today

\* C6: for a task that is not completed: due today, is_overdue() is false
\* without a deadline_time, true with a deadline_time earlier than the
\* current time of day, false with a later one; due before today it is
\* true, due after today it is false.
C6_OverdueByDateAndTime ==
  \A i \in Pos :
    LET t == tasks[i] IN
    ~t.completed =>
      /\ (t.deadline_date = Today /\ t.deadline_time = NoneV) => ~IsOverdue(t)
      /\ (t.deadline_date = Today /\ t.deadline_time # NoneV
            /\ t.deadline_time < TimeOfDay) => IsOverdue(t)
      /\ (t.deadline_date = Today /\ t.deadline_time # NoneV
            /\ t.deadline_time > TimeOfDay) => ~IsOverdue(t)
      /\ t.deadline_date < Today => IsOverdue(t)
      /\ t.deadline_date > Today => ~IsOverdue(t)

\* a pending task due today whose deadline_time has passed
C6_Witness ==
  \E i \in Pos :
    /\ ~tasks[i].completed /\ tasks[i].deadline_date = Today
    /\ tasks[i].deadline_time # NoneV /\ tasks[i].deadline_time < TimeOfDay

\* ---------------------------------------------------------- reminder buckets
\* one-off tasks due before the first day, on it (with and without a time
\* of day), the day after, on the last day of the upcoming window and the day
\* after that, High and Medium where ties in the sort key matter; one
\* repeating task
ReminderAddInputs ==
  { Kwargs("a", "", 0, NoneV, p, "kerja", "regular", "daily", 1) : p \in {1, 2} }
  \cup { Kwargs("a", "", 1, tm, p, "kerja", "regular", "daily", 1) :
           tm \in {NoneV, 0}, p \in {1, 2} }
  \cup { Kwargs("a", "", 2, NoneV, 1, "kerja", "regular", "daily", 1),
         Kwargs("a", "", 1 + upcoming_threshold, 0, 2, "kerja", "regular", "daily", 1),
         Kwargs("a", "", 2 + upcoming_threshold, NoneV, 1, "kerja", "regular", "daily", 1),
         Kwargs("b", "", 1, 0, 1, "kerja", "recurring", "daily", 1) }

\* update_task arguments: a task is rescheduled to the first day
ReminderUpdateInputs == { <<"deadline_date", 1>> }

NextReminder ==
  \/ \E kw \in ReminderAddInputs : AddTask(kw)
  \/ \E id \in Ids : MarkCompleted(id)
  \/ \E id \in Ids : \E u \in ReminderUpdateInputs : UpdateTask(id, u[1], u[2])
  \/ TickToday

SpecReminder == Init /\ [][NextReminder]_vars

\* the times a task record occurs in a sequence
Occurs(s, t) == \E k \in 1..Len(s) : s[k] = t

\* C7: get_urgent_reminders() never holds the same task id twice, also when
\* a task is both due today and overdue.
C7_UrgentHasNoDuplicateId ==
  LET r == GetUrgentReminders IN
  \A j, k \in 1..Len(r) : j # k => r[j].task_id # r[k].task_id

\* a pending task due today whose deadline_time has passed: it is in
\* today's tasks and in the overdue tasks, and once in the result
C7_Witness ==
  \E i \in Pos :
    /\ ~tasks[i].completed /\ tasks[i].deadline_date = Today
    /\ IsOverdue(tasks[i])
    /\ Occurs(GetUrgentReminders, tasks[i])

\* a task belongs in the urgent bucket
IsUrgent(t) == ~t.completed /\ (t.deadline_date = Today \/ IsOverdue(t))

\* C8: a task of the store is in get_urgent_reminders() if and only if it is
\* not completed and is due today or overdue, and the result is ascending by
\* (deadline_date, priority).
C8_UrgentMembershipAndOrder ==
  LET r == GetUrgentReminders IN
  /\ \A i \in Pos : Occurs(r, tasks[i]) <=> IsUrgent(tasks[i])
  /\ Len(r) = Cardinality({i \in Pos : IsUrgent(tasks[i])})
  /\ \A k \in 1..(Len(r) - 1) :
       \/ r[k].deadline_date < r[k + 1].deadline_date
       \/ /\ r[k].deadline_date = r[k + 1].deadline_date
          /\ r[k].priority <= r[k + 1].priority

\* two urgent tasks of one day, the one added first of lower priority:
\* both are in the result, in the other order
C8_Witness ==
  /\ \E i, j \in Pos :
       /\ i < j /\ IsUrgent(tasks[i]) /\ IsUrgent(tasks[j])
       /\ tasks[i].deadline_date = tasks[j].deadline_date
       /\ tasks[i].priority > tasks[j].priority
  /\ Len(GetUrgentReminders) = 2

\* a task belongs in the upcoming bucket
IsUpcoming(t) ==
  /\ ~t.completed
  /\ Today < t.deadline_date
  /\ t.deadline_date <= Today + upcoming_threshold

\* C9: get_upcoming_reminders() holds exactly the pending tasks due after
\* today and at most upcoming_threshold days ahead; never a task due today.
C9_UpcomingExcludesToday ==
  LET r == GetUpcomingReminders IN
  /\ \A i \in Pos : Occurs(r, tasks[i]) <=> IsUpcoming(tasks[i])
  /\ Len(r) = Cardinality({i \in Pos : IsUpcoming(tasks[i])})
  /\ \A k \in 1..Len(r) : r[k].deadline_date # Today

\* a pending task due today (inside the store's window, left out) and one
\* due on the last day of the window (kept)
C9_Witness ==
  /\ \E i \in Pos : ~tasks[i].completed /\ tasks[i].deadline_date = Today
  /\ \E i \in Pos : /\ ~tasks[i].completed
                    /\ tasks[i].deadline_date = Today + upcoming_threshold
  /\ Len(GetUpcomingTasks(upcoming_threshold)) = 2
  /\ Len(GetUpcomingReminders) = 1

\* -------------------------------------------------------------- completion
\* C4: a mark_completed(id) that finds its task returns True, leaves the
\* task in place with completed = True and every field but completed and
\* completed_at as it was, leaves every other task as it was, and adds
\* exactly one task when the target is Recurring and none when it is
\* Regular, also when the target was completed before the call.
C4_MarkCompletedFrame ==
  [][ \A id \in Ids :
        (MarkCompleted(id) /\ GetTaskById(id) # 0) =>
          LET i == GetTaskById(id) IN
          /\ ret' = True
          /\ Len(tasks') >= Len(tasks)
          /\ tasks'[i].completed
          /\ tasks'[i] = [tasks[i] EXCEPT !.completed = tasks'[i].completed,
                                          !.completed_at = tasks'[i].completed_at]
          /\ \A j \in Pos \ {i} : tasks'[j] = tasks[j]
          /\ Len(tasks') - Len(tasks) =
               IF tasks[i].kind = RecurringTask THEN 1 ELSE 0 ]_vars

\* a Recurring task created earlier has just been completed: it is in
\* place, completed now, and its next occurrence follows it
C4_Witness ==
  /\ ret = True
  /\ Len(tasks) = 2
  /\ tasks[1].kind = RecurringTask /\ tasks[1].completed
  /\ tasks[1].completed_at = now /\ tasks[1].created_at < now
  /\ tasks[2].kind = RecurringTask /\ ~tasks[2].completed
  /\ tasks[2].created_at = now
  /\ tasks[2].deadline_date = GetNextDeadline(tasks[1])

\* --------------------------------------------------------------- recurrence
\* repeating tasks of every recurrence type (and one the code does not
\* know), every 1, 2 or 3 units, and one with every optional field set
RecurrenceAddInputs ==
  { Kwargs("a", "", 1, NoneV, 1, "kerja", "recurring", rt, rc) :
      rt \in {"daily", "weekly", "monthly", "yearly"}, rc \in 1..3 }
  \cup { Kwargs("b", "d", NoneV, 1, 3, "Kuliah", "recurring", "daily", 3) }

\* update_task arguments: the category as the user typed it, a new deadline
RecurrenceUpdateInputs == { <<"category", "Kerja">>, <<"deadline_date", 0>> }

NextRecurrence ==
  \/ \E kw \in RecurrenceAddInputs : AddFirstTask(kw)
  \/ \E id \in Ids : MarkCompleted(id)
  \/ \E id \in Ids : \E u \in RecurrenceUpdateInputs : UpdateTask(id, u[1], u[2])
  \/ TickToday

SpecRecurrence == Init /\ [][NextRecurrence]_vars

\* C3: mark_completed(id) on a Recurring task of the store appends a new
\* Recurring task with the title, description, priority, category,
\* recurrence type, recurrence count and deadline_time of the completed one,
\* deadline_date = its get_next_deadline(), an id no task of the store has,
\* completed = False and no completed_at.
C3_SpawnCopiesTask ==
  [][ \A id \in Ids :
        (/\ MarkCompleted(id)
         /\ GetTaskById(id) # 0
         /\ tasks[GetTaskById(id)].kind = RecurringTask) =>
          LET old == tasks[GetTaskById(id)]
              new == tasks'[Len(tasks')]
          IN /\ Len(tasks') = Len(tasks) + 1
             /\ new.kind = RecurringTask
             /\ new.title = old.title
             /\ new.description = old.description
             /\ new.priority = old.priority
             /\ new.category = old.category
             /\ new.recurrence_type = old.recurrence_type
             /\ new.recurrence_count = old.recurrence_count
             /\ new.deadline_time = old.deadline_time
             /\ new.deadline_date = GetNextDeadline(old)
             /\ \A j \in Pos : tasks[j].task_id # new.task_id
             /\ ~new.completed
             /\ new.completed_at = NoneV ]_vars

\* the step of a recurrence in days, for the three types the claim names
StepDays(t) ==
  CASE t.recurrence_type = "daily" -> t.recurrence_count
    [] t.recurrence_type = "weekly" -> 7 * t.recurrence_count
    [] t.recurrence_type = "monthly" -> 30 * t.recurrence_count

KnownType(t) == t.recurrence_type \in {"daily", "weekly", "monthly"}

\* C16: get_next_deadline() of a Recurring task with interval n is
\* deadline_date + n days for daily, + 7n days for weekly, + 30n days for
\* monthly; where mark_completed calls it, the occurrence it spawns is due
\* on that day and the task it was called on keeps its deadline_date and
\* its recurrence fields.
C16_NextDeadlineSteps ==
  [][ /\ \A j \in 1..Len(tasks') :
           (tasks'[j].kind = RecurringTask /\ KnownType(tasks'[j])) =>
             GetNextDeadline(tasks'[j]) = tasks'[j].deadline_date + StepDays(tasks'[j])
      /\ \A id \in Ids :
           (/\ MarkCompleted(id)
            /\ GetTaskById(id) # 0
            /\ tasks[GetTaskById(id)].kind = RecurringTask
            /\ KnownType(tasks[GetTaskById(id)])) =>
             LET i == GetTaskById(id) IN
             /\ tasks'[Len(tasks')].deadline_date =
                  tasks[i].deadline_date + StepDays(tasks[i])
             /\ tasks'[i].deadline_date = tasks[i].deadline_date
             /\ tasks'[i].recurrence_type = tasks[i].recurrence_type
             /\ tasks'[i].recurrence_count = tasks[i].recurrence_count ]_vars

\* a weekly task, every 2 weeks, completed, and its next occurrence 14 days
\* after it
C16_Witness ==
  /\ Len(tasks) = 2
  /\ tasks[1].recurrence_type = "weekly" /\ tasks[1].recurrence_count = 2
  /\ tasks[1].completed
  /\ tasks[2].deadline_date = tasks[1].deadline_date + 14

\* ------------------------------------------------------ a recurrence chain
\* one repeating task of a type the code knows, every 1 or 2 units, due
\* before the first day, after it, or on the default day
ChainAddInputs ==
  { Kwargs("a", "", d, NoneV, 2, "kerja", "recurring", rt, rc) :
      d \in {0, 2, NoneV}, rt \in {"daily", "weekly", "monthly"}, rc \in 1..2 }

\* mark_completed on a pending task of the store
CompletePending(task_id) ==
  /\ GetTaskById(task_id) # 0
  /\ ~tasks[GetTaskById(task_id)].completed
  /\ MarkCompletedWithin(task_id, MaxChain)

\* the pending occurrence of the chain is completed, again and again, while
\* the clock runs
NextChain ==
  \/ \E kw \in ChainAddInputs : AddFirstTask(kw)
  \/ \E id \in 1..MaxChain : CompletePending(id)
  \/ Tick

SpecChain == Init /\ [][NextChain]_vars

\* C20: after n completions in a row of the pending occurrence of a chain
\* that started with deadline d0, the store holds n completed occurrences
\* due d0, d0+s, ..., d0+(n-1)s and one pending occurrence due d0+n*s, s
\* being the step in days, whatever the days of the completions were.
C20_ChainDeadlines ==
  tasks # <<>> =>
    LET n == Len(tasks) - 1
        d0 == tasks[1].deadline_date
        s == StepDays(tasks[1])
    IN /\ Cardinality({k \in Pos : tasks[k].completed}) = n
       /\ \A k \in 1..n : tasks[k].completed /\ tasks[k].deadline_date = d0 + (k - 1) * s
       /\ ~tasks[n + 1].completed
       /\ tasks[n + 1].deadline_date = d0 + n * s
       /\ \A k \in Pos : tasks[k].kind = RecurringTask /\ StepDays(tasks[k]) = s

\* two completions, the second on a later day than the first and neither
\* on the day the occurrence was due: a third occurrence is pending
C20_Witness ==
  /\ Len(tasks) = 3
  /\ tasks[1].completed /\ tasks[2].completed /\ ~tasks[3].completed
  /\ tasks[1].completed_at \div DayLen < tasks[2].completed_at \div DayLen
  /\ tasks[1].completed_at \div DayLen # tasks[1].deadline_date
  /\ tasks[2].completed_at \div DayLen # tasks[2].deadline_date
  /\ tasks[3].deadline_date = tasks[1].deadline_date + 2 * StepDays(tasks[1])

\* ------------------------------------------------------------------ cleanup
\* a one-off task long overdue
CleanupAddInputs ==
  { Kwargs("a", "", 0, NoneV, 2, "kerja", "regular", "daily", 1) }

\* update_task arguments: the completed flag set and cleared by hand
CleanupUpdateInputs == { <<"completed", TRUE>>, <<"completed", FALSE>> }

\* cleanup_completed_tasks arguments: days_old
CleanupInputs == {0, 1}

NextCleanup ==
  \/ \E kw \in CleanupAddInputs : AddTask(kw)
  \/ \E id \in Ids : MarkCompleted(id)
  \/ \E id \in Ids : \E u \in CleanupUpdateInputs : UpdateTask(id, u[1], u[2])
  \/ \E days_old \in CleanupInputs : CleanupCompletedTasks(days_old)
  \/ TickTwoDays

SpecCleanup == Init /\ [][NextCleanup]_vars

\* completed, and completed earlier than now minus n days
CompletedBefore(t, n) ==
  t.completed /\ t.completed_at # NoneV /\ t.completed_at + n * DayLen < now

\* s without the elements at the positions in gone
RECURSIVE Without(_, _)
Without(s, gone) ==
  IF s = <<>> THEN <<>>
  ELSE LET rest == Without(SubSeq(s, 1, Len(s) - 1), gone)
       IN IF Len(s) \in gone THEN rest ELSE Append(rest, s[Len(s)])

\* C10: cleanup_completed_tasks(N) removes exactly the tasks that are
\* completed with completed_at earlier than now minus N days, returns how
\* many it removed, removes no task that is not completed, and leaves the
\* tasks it keeps as they were.
C10_CleanupRemovesOldCompleted ==
  [][ \A n \in CleanupInputs :
        CleanupCompletedTasks(n) =>
          LET gone == {i \in Pos : CompletedBefore(tasks[i], n)} IN
          /\ tasks' = Without(tasks, gone)
          /\ ret' = Cardinality(gone)
          /\ \A i \in Pos : ~tasks[i].completed => i \notin gone ]_vars

\* two tasks were created and a cleanup removed one: it returned 1 and kept
\* the pending task, whose deadline is in the past
C10_Witness ==
  /\ ret = 1
  /\ nextId = 3
  /\ Len(tasks) = 1
  /\ ~tasks[1].completed
  /\ tasks[1].deadline_date < Today

\* ------------------------------------------------------- unknown identifiers
\* the store operations that take an identifier, and add_task
NextLookup ==
  \/ \E kw \in StoreAddInputs : AddTask(kw)
  \/ \E id \in Ids : MarkCompleted(id)
  \/ \E id \in Ids : DeleteTask(id)
  \/ \E id \in Ids : \E u \in StoreUpdateInputs : UpdateTask(id, u[1], u[2])
  \/ TickToday

SpecLookup == Init /\ [][NextLookup]_vars

\* no task of the store has this id
NoTaskHas(id) == \A i \in Pos : tasks[i].task_id # id

\* C11: for an id that no task in the store has, get_task_by_id returns
\* None and delete_task, mark_completed and update_task return False and
\* leave the task collection as it was.
C11_UnknownIdIsNotFound ==
  [][ \A id \in Ids :
        NoTaskHas(id) =>
          /\ GetTaskById(id) = 0
          /\ MarkCompleted(id) => (ret' = False /\ tasks' = tasks)
          /\ DeleteTask(id) => (ret' = False /\ tasks' = tasks)
          /\ \A u \in StoreUpdateInputs :
               UpdateTask(id, u[1], u[2]) => (ret' = False /\ tasks' = tasks) ]_vars

\* a call has returned False while the store holds a task: it named the
\* id of a deleted task, or one never issued
C11_Witness ==
  /\ ret = False
  /\ tasks # <<>>
  /\ \E id \in Ids : NoTaskHas(id)

\* ------------------------------------------------------ completion and ids
\* C12: in every reachable store state, every task has completed_at set if
\* and only if completed is true.
C12_CompletedAtIffCompleted ==
  \A i \in Pos : (tasks[i].completed_at # NoneV) <=> tasks[i].completed

\* the task ids of a task list, in order
IdsOf(s) == [i \in 1..Len(s) |-> s[i].task_id]

\* C13: no two tasks of the store have the same task_id, and an operation
\* leaves the task_id of every task it keeps as it was: a step that removes
\* nothing keeps the id at every position, a step that removes tasks leaves
\* the ids of the others, in order.
C13_IdsUniqueAndFixed ==
  [][ /\ \A i, j \in 1..Len(tasks') :
           i # j => tasks'[i].task_id # tasks'[j].task_id
      /\ Len(tasks') >= Len(tasks) =>
           \A i \in Pos : tasks'[i].task_id = tasks[i].task_id
      /\ Len(tasks') < Len(tasks) =>
           \E gone \in SUBSET Pos : IdsOf(tasks') = Without(IdsOf(tasks), gone) ]_vars

\* a completed Recurring task and the occurrence spawned after it, with
\* different ids
C13_Witness ==
  /\ Len(tasks) = 2
  /\ tasks[1].kind = RecurringTask /\ tasks[1].completed_at # NoneV
  /\ tasks[2].kind = RecurringTask /\ tasks[2].title = tasks[1].title
  /\ tasks[2].created_at = tasks[1].completed_at
  /\ tasks[1].task_id # tasks[2].task_id

\* --------------------------------------------------------------- statistics
\* tasks of two categories and two priorities: one overdue from the start,
\* one due later, one repeating and due on the first day at slot 0
StatisticsAddInputs ==
  { Kwargs("a", "", 0, NoneV, 1, "kerja", "regular", "daily", 1),
    Kwargs("b", "", 2, NoneV, 3, "Kuliah", "regular", "daily", 1),
    Kwargs("c", "", 1, 0, 1, "kerja", "recurring", "daily", 1) }

NextStatistics ==
  \/ \E kw \in StatisticsAddInputs : AddTask(kw)
  \/ \E id \in Ids : MarkCompleted(id)
  \/ \E id \in Ids : DeleteTask(id)
  \/ TickToday

SpecStatistics == Init /\ [][NextStatistics]_vars

\* the number of tasks of the store that satisfy a condition, given as the
\* set of their positions
Count(S) == Cardinality(S)

\* C15: get_statistics() returns total = the number of tasks, completed and
\* pending = the tasks with completed true and false, overdue = the tasks
\* with is_overdue(), completion_rate = completed / total * 100 and 0 for
\* an empty store, by_category = the count of every category in use, and
\* by_priority with the keys 1, 2 and 3, 0 for a priority no task has.
C15_StatisticsCounts ==
  LET st == GetStatistics
      done == Count({i \in Pos : tasks[i].completed})
  IN /\ st.total = Len(tasks)
     /\ st.completed = done
     /\ st.pending = Count({i \in Pos : ~tasks[i].completed})
     /\ st.overdue = Count({i \in Pos : IsOverdue(tasks[i])})
     /\ st.completion_rate[2] > 0
     /\ IF Len(tasks) > 0
        THEN st.completion_rate[1] * Len(tasks) = done * 100 * st.completion_rate[2]
        ELSE st.completion_rate[1] = 0
     /\ DOMAIN st.by_category = {tasks[i].category : i \in Pos}
     /\ \A c \in DOMAIN st.by_category :
          st.by_category[c] = Count({i \in Pos : tasks[i].category = c})
     /\ DOMAIN st.by_priority = {1, 2, 3}
     /\ \A p \in {1, 2, 3} :
          st.by_priority[p] = Count({i \in Pos : tasks[i].priority = p})

\* a store of two tasks of two categories, one completed and one overdue,
\* none of Medium priority
C15_Witness ==
  /\ Len(tasks) = 2
  /\ GetStatistics.completed = 1
  /\ GetStatistics.overdue = 1
  /\ GetStatistics.completion_rate = <<100, 2>>
  /\ Cardinality(DOMAIN GetStatistics.by_category) = 2
  /\ GetStatistics.by_priority[2] = 0

\* -------------------------------------------------------- original_deadline
\* update_task arguments: the first deadline of a repeating task
OriginalUpdateInputs == { <<"original_deadline", 0>> }

\* one chain of tasks, completed, reset, changed, and read back from the file
NextOriginal ==
  \/ \E kw \in StoreAddInputs : AddFirstTask(kw)
  \/ \E id \in Ids : MarkCompleted(id)
  \/ \E id \in Ids : \E u \in OriginalUpdateInputs : UpdateTask(id, u[1], u[2])
  \/ \E id \in Ids : ResetForNextCycle(id)
  \/ LoadData
  \/ TickToday

SpecOriginal == Init /\ [][NextOriginal]_vars

\* C14: a Recurring task's original_deadline is, when the task is created,
\* its first deadline_date (also when that is the default, the creation
\* date), and it is the same in every later state.
C14_OriginalDeadlineFixed ==
  [][ \A j \in 1..Len(tasks') :
        tasks'[j].kind = RecurringTask =>
          IF \E i \in Pos : tasks[i].task_id = tasks'[j].task_id
          THEN \A i \in Pos :
                 (tasks[i].task_id = tasks'[j].task_id
                    /\ tasks[i].kind = RecurringTask) =>
                   tasks'[j].original_deadline = tasks[i].original_deadline
          ELSE tasks'[j].original_deadline = tasks'[j].deadline_date ]_vars

\* -------------------------------------------------------------- persistence
\* update_task arguments: the category as the user typed it
PersistUpdateInputs == { <<"category", "Kerja">> }

\* the ways a record of the file is damaged
DamageInputs == {"unknown_type", "missing_field"}

NextPersist ==
  \/ \E kw \in StoreAddInputs : AddTask(kw)
  \/ \E id \in Ids : MarkCompleted(id)
  \/ \E id \in Ids : \E u \in PersistUpdateInputs : UpdateTask(id, u[1], u[2])
  \/ \E i \in Ids : \E how \in DamageInputs : DamageRecord(i, how)
  \/ LoadData
  \/ TickToday

SpecPersist == Init /\ [][NextPersist]_vars

\* C17: saving the store and loading the file into a new TaskManager
\* gives the same tasks in the same order, every field equal.
C17_SaveLoadRoundTrip ==
  LoadInto(<<>>, SaveData(tasks)) = tasks

\* the record data holds the fields of the task t
RecordHolds(data, t) ==
  /\ data.task_type = t.kind
  /\ data.task_id = t.task_id
  /\ data.title = t.title
  /\ data.description = t.description
  /\ data.deadline_date[2] = t.deadline_date
  /\ data.deadline_time[2] = t.deadline_time
  /\ data.priority = t.priority
  /\ data.category = t.category
  /\ data.completed = t.completed
  /\ data.created_at[2] = t.created_at
  /\ data.completed_at[2] = t.completed_at
  /\ t.kind = RecurringTask =>
       /\ data.recurrence_type = t.recurrence_type
       /\ data.recurrence_count = t.recurrence_count
       /\ data.original_deadline[2] = t.original_deadline

\* the file exists and holds exactly the tasks of the store, in order
DiskHoldsStore ==
  /\ disk.exists
  /\ Len(disk.tasks) = Len(tasks)
  /\ \A i \in Pos : RecordHolds(disk.tasks[i], tasks[i])

\* C18: after every add_task, mark_completed, delete_task and update_task
\* that returns True, and every cleanup_completed_tasks that removed a
\* task, the file holds exactly the tasks of the store as the operation
\* left it.
C18_FileFollowsStore ==
  [][ /\ \A kw \in StoreAddInputs : (AddTask(kw) /\ ret' = True) => DiskHoldsStore'
      /\ \A id \in Ids :
           /\ (MarkCompleted(id) /\ ret' = True) => DiskHoldsStore'
           /\ (DeleteTask(id) /\ ret' = True) => DiskHoldsStore'
           /\ \A u \in StoreUpdateInputs :
                (UpdateTask(id, u[1], u[2]) /\ ret' = True) => DiskHoldsStore'
      /\ (CleanupCompletedTasks(0) /\ ret' > 0) => DiskHoldsStore' ]_vars

\* a record with every key from_dict requires
WellFormed(data) == RequiredKeys \subseteq DOMAIN data

\* C19: when load_data reads a file in which a record is malformed (a
\* task_type it does not know, or a required field missing), every
\* well-formed record of the file is loaded into the store, in order (the
\* malformed one skipped or defaulted), and every task of the store is
\* fully constructed.
C19_LoadKeepsWellFormed ==
  [][ (LoadData /\ disk.exists) =>
        LET good == {i \in 1..Len(disk.tasks) :
                       /\ WellFormed(disk.tasks[i])
                       /\ disk.tasks[i].task_type \in {RegularTask, RecurringTask}}
        IN /\ \A i \in good :
                \E j \in 1..Len(tasks') : tasks'[j] = FromDict(disk.tasks[i])
           /\ \A i, k \in good :
                i < k => \E j, l \in 1..Len(tasks') :
                           /\ j < l
                           /\ tasks'[j].task_id = disk.tasks[i].task_id
                           /\ tasks'[l].task_id = disk.tasks[k].task_id
           /\ \A j \in 1..Len(tasks') :
                DOMAIN tasks'[j] = DOMAIN NewTask(0, RegularTask, "", "", 0, NoneV, 2, "", "-", NoneV) ]_vars

\* ------------------------------------------------------- overdue over time
\* C21: for a task that stays not completed and keeps its deadline_date and
\* deadline_time, is_overdue() true at one instant is true at the next,
\* within the day and across midnight.
C21_OverdueIsMonotone ==
  [][ \A i \in Pos :
        (/\ i <= Len(tasks')
         /\ tasks'[i].task_id = tasks[i].task_id
         /\ ~tasks[i].completed /\ ~tasks'[i].completed
         /\ tasks'[i].deadline_date = tasks[i].deadline_date
         /\ tasks'[i].deadline_time = tasks[i].deadline_time
         /\ IsOverdue(tasks[i])) => IsOverdue(tasks[i])' ]_vars

\* a pending task created on its due day before its deadline_time, which
\* passed on that day: it is overdue on the day after
C21_Witness ==
  \E i \in Pos :
    /\ ~tasks[i].completed
    /\ tasks[i].deadline_time # NoneV
    /\ tasks[i].deadline_time < DayLen - 1
    /\ tasks[i].created_at = tasks[i].deadline_date * DayLen + tasks[i].deadline_time
    /\ Today = tasks[i].deadline_date + 1
    /\ IsOverdue(tasks[i])

\* ------------------------------------------------------ bucket consistency
\* C22: at one clock instant, every task of get_overdue_reminders() is in
\* get_urgent_reminders(), no task is in both get_urgent_reminders() and
\* get_upcoming_reminders(), and no completed task is in any of the three.
C22_BucketsConsistent ==
  LET urgent == GetUrgentReminders
      upcoming == GetUpcomingReminders
      overdue == GetOverdueReminders
  IN /\ \A k \in 1..Len(overdue) : Occurs(urgent, overdue[k])
     /\ \A j \in 1..Len(urgent) : \A k \in 1..Len(upcoming) :
          urgent[j].task_id # upcoming[k].task_id
     /\ \A k \in 1..Len(urgent) : ~urgent[k].completed
     /\ \A k \in 1..Len(upcoming) : ~upcoming[k].completed
     /\ \A k \in 1..Len(overdue) : ~overdue[k].completed

\* an overdue task, which is all of the urgent bucket, beside a completed task due
\* within the upcoming window, which is in no bucket
C22_Witness ==
  /\ Len(tasks) = 2
  /\ Len(GetOverdueReminders) = 1
  /\ GetUrgentReminders = GetOverdueReminders
  /\ GetUpcomingReminders = <<>>
  /\ \E i \in Pos :
       /\ tasks[i].completed
       /\ Today < tasks[i].deadline_date
       /\ tasks[i].deadline_date <= Today + upcoming_threshold

====
